---- MODULE Spec2Model ----
(***************************************************************************)
(* Model of src/src/lj_target.h (LuaJIT 2.0): register/hint encoding,      *)
(* packed register+spill encoding, register sets, the R-LSRA register      *)
(* cost and exit-stub addressing.                                          *)
(*                                                                         *)
(* Reg, RegSP, RegSet and RegCost are uint32_t in the source.  TLC's       *)
(* integers are 32-bit signed, so a uint32_t value is kept as two 16-bit   *)
(* halves [hi, lo] and every operation on it is carried out modulo 2^32    *)
(* on the halves.  Values the source keeps below 2^16 (a register byte, a  *)
(* packed RegSP built from two bytes) are plain numbers.                   *)
(***************************************************************************)
EXTENDS Integers, FiniteSets, Sequences, TLC

VARIABLES
  hint_r,        \* ra_sethint: the register argument r
  rr,            \* ra_sethint: the uint8_t slot the hint is stored in (ir->r)
  hint_pc,       \* "idle" | "ready" | "set"
  pack_r,        \* REGSP: register/hint byte
  pack_s,        \* REGSP: spill slot index
  rs,            \* the packed RegSP (ir->prev)
  pack_pc,       \* "idle" | "ready" | "packed" | "hint"
  rset,          \* a RegSet (uint32_t, as halves)
  nops,          \* number of rset_set/rset_clear operations applied
  pick,          \* result of the last rset_picktop/rset_pickbot on rset
  range_lo,      \* RSET_RANGE: lo
  range_hi,      \* RSET_RANGE: hi
  range_set,     \* RSET_RANGE(lo, hi)
  range_pc,      \* "idle" | "ready" | "built"
  valA, valB,    \* two occupying values [ref, t]
  costA, costB,  \* their RegCost (as halves), NoCost before it is computed
  regval,        \* allocator: register -> occupying value [ref, t] or NoVal
  cost,          \* allocator: register -> RegCost (as->cost[r]), 0 when free
  freeset,       \* allocator: RegSet of free registers (as->freeset)
  evictref,      \* allocator: reference found by the eviction scan, NoRef if none
  exitstubgroup, \* J->exitstubgroup: group -> base address, NULL if none
  use_assert,    \* whether lua_assert is compiled in
  exitno,        \* argument of the last exitstub_addr call, -1 if none
  exitres        \* its outcome

hintVars  == <<hint_r, rr, hint_pc>>
packVars  == <<pack_r, pack_s, rs, pack_pc>>
rsetVars  == <<rset, nops, pick>>
rangeVars == <<range_lo, range_hi, range_set, range_pc>>
costVars  == <<valA, valB, costA, costB>>
evictVars == <<regval, cost, freeset, evictref>>
exitVars  == <<exitstubgroup, use_assert, exitno, exitres>>
vars == <<hintVars, packVars, rsetVars, rangeVars, costVars, evictVars, exitVars>>

(***************************************************************************)
(* Fixed-width unsigned arithmetic.                                        *)
(***************************************************************************)
W16 == 65536
W8 == 256

RECURSIVE BitAnd(_, _)
BitAnd(a, b) ==
  IF a = 0 \/ b = 0 THEN 0
  ELSE 2 * BitAnd(a \div 2, b \div 2) + (IF a % 2 = 1 /\ b % 2 = 1 THEN 1 ELSE 0)

RECURSIVE BitOr(_, _)
BitOr(a, b) ==
  IF a = 0 THEN b
  ELSE IF b = 0 THEN a
  ELSE 2 * BitOr(a \div 2, b \div 2) + (IF a % 2 = 1 \/ b % 2 = 1 THEN 1 ELSE 0)

RECURSIVE BitXor(_, _)
BitXor(a, b) ==
  IF a = 0 THEN b
  ELSE IF b = 0 THEN a
  ELSE 2 * BitXor(a \div 2, b \div 2) + (IF a % 2 # b % 2 THEN 1 ELSE 0)

\* a value below 2^31 as a uint32_t
U32(n) == [hi |-> (n \div W16) % W16, lo |-> n % W16]
U32Zero == [hi |-> 0, lo |-> 0]
U32Max == [hi |-> W16 - 1, lo |-> W16 - 1]
U32And(a, b) == [hi |-> BitAnd(a.hi, b.hi), lo |-> BitAnd(a.lo, b.lo)]
U32Or(a, b) == [hi |-> BitOr(a.hi, b.hi), lo |-> BitOr(a.lo, b.lo)]
U32Not(a) == [hi |-> W16 - 1 - a.hi, lo |-> W16 - 1 - a.lo]
U32Add(a, b) ==
  [hi |-> (a.hi + b.hi + ((a.lo + b.lo) \div W16)) % W16, lo |-> (a.lo + b.lo) % W16]
U32Sub(a, b) == U32Add(U32Add(a, U32Not(b)), U32(1))
U32Lt(a, b) == a.hi < b.hi \/ (a.hi = b.hi /\ a.lo < b.lo)

RECURSIVE U32Shl(_, _)
\* a << n for 0 <= n < 32
U32Shl(a, n) ==
  IF n = 0 THEN a
  ELSE U32Shl([hi |-> (2 * a.hi + (a.lo \div 32768)) % W16, lo |-> (2 * a.lo) % W16], n - 1)

RECURSIVE U32Shr(_, _)
\* a >> n for 0 <= n < 32
U32Shr(a, n) ==
  IF n = 0 THEN a
  ELSE U32Shr([hi |-> a.hi \div 2, lo |-> (a.lo \div 2) + 32768 * (a.hi % 2)], n - 1)

(***************************************************************************)
(* Registers and spill slots (lj_target.h:12-49).                          *)
(***************************************************************************)
RID_NONE == 128
RID_MASK == 127
RID_INIT == BitOr(RID_NONE, RID_MASK)

ra_noreg(r) == BitAnd(r, RID_NONE)
ra_hasreg(r) == BitAnd(r, RID_NONE) = 0
ra_hashint(r) == r # RID_INIT
ra_gethint(r) == BitAnd(r, RID_MASK)
ra_samehint(r1, r2) == ra_gethint(BitXor(r1, r2)) = 0

\* a plausible slip: the hint is stored without forcing the NONE bit
ra_sethint_NoFlag(r) == r % W8
\* the value ra_sethint(rr, r) assigns to rr
ra_sethint(r) == BitOr(r, RID_NONE) % W8

SPS_NONE == 0
ra_hasspill(s) == s # SPS_NONE

\* a plausible slip: the spill slot is shifted by 7 instead of 8
REGSP_Shift7(r, s) == r + s * 128
REGSP(r, s) == r + s * W8
REGSP_HINT(r) == BitOr(r, RID_NONE)
REGSP_INIT == REGSP(RID_INIT, 0)

regsp_reg(p) == BitAnd(p, 255)
regsp_spill(p) == p \div W8
\* a plausible slip: the register bits are not cleared before the comparison
regsp_used_NoMask(p) == U32(p) # U32(REGSP(RID_NONE, 0))
regsp_used(p) ==
  U32And(U32(p), U32Not(U32(REGSP(RID_MASK, 0)))) # U32(REGSP(RID_NONE, 0))

(***************************************************************************)
(* Idle values of each group of variables: a specification that exercises  *)
(* one part of the header leaves the other parts at these values.          *)
(***************************************************************************)
NoCost == [hi |-> -1, lo |-> -1]
NoVal == [ref |-> 0, t |-> 0]
NoPick == [op |-> "none", reg |-> 0]
NoRes == [kind |-> "none", addr |-> 0]

HintIdle == hint_r = 0 /\ rr = RID_INIT /\ hint_pc = "idle"
PackIdle == pack_r = 0 /\ pack_s = 0 /\ rs = REGSP_INIT /\ pack_pc = "idle"
RSetIdle == rset = U32Zero /\ nops = 0 /\ pick = NoPick
RangeIdle == range_lo = 0 /\ range_hi = 0 /\ range_set = U32Zero /\ range_pc = "idle"
CostIdle == valA = NoVal /\ valB = NoVal /\ costA = NoCost /\ costB = NoCost
EvictIdle == regval = <<>> /\ cost = <<>> /\ freeset = U32Zero /\ evictref = 0
ExitIdle == exitstubgroup = <<>> /\ use_assert = FALSE /\ exitno = -1 /\ exitres = NoRes

(***************************************************************************)
(* Register hints: ra_sethint stores a hint in the uint8_t field ir->r.    *)
(***************************************************************************)
Byte == 0 .. 255

HintInit == hint_r = 0 /\ rr = RID_INIT /\ hint_pc = "ready"

SetHint(r) ==
  /\ hint_pc # "idle"
  /\ hint_r' = r
  /\ rr' = ra_sethint(r)
  /\ hint_pc' = "set"
  /\ UNCHANGED <<packVars, rsetVars, rangeVars, costVars, evictVars, exitVars>>

InitHint ==
  HintInit /\ PackIdle /\ RSetIdle /\ RangeIdle /\ CostIdle /\ EvictIdle /\ ExitIdle
NextHint == \E r \in Byte : SetHint(r)
SpecHint == InitHint /\ [][NextHint]_vars

\* C6: after ra_sethint(rr, r) with r in [0,255] the stored rr has the NONE bit
\* set (ra_noreg is non-zero, ra_hasreg is false) and ra_gethint(rr) is the
\* low 7 bits of r.
C6_SetHintRoundTrip ==
  hint_pc = "set" =>
    /\ ra_noreg(rr) # 0
    /\ ~ra_hasreg(rr)
    /\ rr \in 128 .. 255
    /\ ra_gethint(rr) = hint_r % 128

C6_Witness ==
  /\ hint_pc = "set"
  /\ hint_r = 3
  /\ rr = 131
  /\ ra_gethint(rr) = 3

(***************************************************************************)
(* Packed register + spill slot (ir->prev).                                *)
(***************************************************************************)
PackInit == pack_r \in Byte /\ pack_s \in Byte /\ rs = REGSP_INIT /\ pack_pc = "ready"

\* rs = REGSP(r, s)
Pack ==
  /\ pack_pc = "ready"
  /\ rs' = REGSP(pack_r, pack_s)
  /\ pack_pc' = "packed"
  /\ UNCHANGED <<pack_r, pack_s, hintVars, rsetVars, rangeVars, costVars, evictVars, exitVars>>

\* rs = REGSP_HINT(h) for a register number h
PackHint ==
  /\ pack_pc = "ready"
  /\ pack_r <= RID_MASK
  /\ pack_s = 0
  /\ rs' = REGSP_HINT(pack_r)
  /\ pack_pc' = "hint"
  /\ UNCHANGED <<pack_r, pack_s, hintVars, rsetVars, rangeVars, costVars, evictVars, exitVars>>

InitPack ==
  HintIdle /\ PackInit /\ RSetIdle /\ RangeIdle /\ CostIdle /\ EvictIdle /\ ExitIdle
NextPack == Pack \/ PackHint
SpecPack == InitPack /\ [][NextPack]_vars

\* C4: regsp_used(REGSP(r, s)) is false exactly when the NONE bit of r is set
\* and s is 0, whatever the 7 hint bits are; REGSP_INIT and REGSP_HINT(h) are
\* not used.
C4_UsedIffNotHintOnly ==
  /\ pack_pc = "packed" => (regsp_used(rs) <=> ~(pack_r >= 128 /\ pack_s = 0))
  /\ pack_pc = "hint" => ~regsp_used(rs)
  /\ pack_pc = "ready" => (rs = REGSP_INIT /\ ~regsp_used(rs))

C4_Witness ==
  /\ pack_pc = "packed"
  /\ pack_r = 133
  /\ pack_s = 0
  /\ rs = 133
  /\ ~regsp_used(rs)

\* C7: for r and s in [0,255], regsp_reg(REGSP(r, s)) = r and
\* regsp_spill(REGSP(r, s)) = s, and ra_hasspill of the extracted slot is true
\* exactly when s is not 0.
C7_PackRoundTrip ==
  pack_pc = "packed" =>
    /\ regsp_reg(rs) = pack_r
    /\ regsp_spill(rs) = pack_s
    /\ (ra_hasspill(regsp_spill(rs)) <=> pack_s # 0)

C7_Witness ==
  /\ pack_pc = "packed"
  /\ pack_r = 3
  /\ pack_s = 0
  /\ regsp_reg(rs) = 3
  /\ regsp_spill(rs) = 0
  /\ ~ra_hasspill(regsp_spill(rs))

(***************************************************************************)
(* Register sets (lj_target.h:51-67).                                      *)
(***************************************************************************)
RegBits == 32
RegIds == 0 .. RegBits - 1

\* a << n in uint32_t arithmetic.  For n >= 32 the shift is undefined in C:
\* a build either uses the low five bits of the count (the x86 shift
\* instructions) or shifts every bit out (constant folding, other targets).
ShlOutcomes(a, n) ==
  IF n < RegBits THEN {U32Shl(a, n)} ELSE {U32Shl(a, n % RegBits), U32Zero}

RID2RSET(r) == U32Shl(U32(1), r)
RSET_EMPTY == 0

\* a plausible slip: the width of the range is taken to be hi, not hi - lo
RSET_RANGE_NoSub(lo, hi) ==
  UNION {ShlOutcomes(U32Sub(b, U32(1)), lo) : b \in ShlOutcomes(U32(1), hi)}
\* the values RSET_RANGE(lo, hi) can evaluate to
RSET_RANGE(lo, hi) ==
  UNION {ShlOutcomes(U32Sub(b, U32(1)), lo) : b \in ShlOutcomes(U32(1), hi - lo)}

rset_test(s, r) == BitAnd(U32Shr(s, r).lo, 1)
rset_set(s, r) == U32Or(s, RID2RSET(r))
rset_clear(s, r) == U32And(s, U32Not(RID2RSET(r)))
rset_exclude(s, r) == U32And(s, U32Not(RID2RSET(r)))

RECURSIVE lj_fls(_)
\* index of the highest set bit of a non-zero word
lj_fls(x) == IF U32Shr(x, 1) = U32Zero THEN 0 ELSE 1 + lj_fls(U32Shr(x, 1))

RECURSIVE lj_ffs(_)
\* index of the lowest set bit of a non-zero word
lj_ffs(x) == IF x.lo % 2 = 1 THEN 0 ELSE 1 + lj_ffs(U32Shr(x, 1))

\* a plausible slip: the two bit scans are exchanged
rset_picktop_Bottom(s) == lj_ffs(s)
rset_picktop(s) == lj_fls(s)
rset_pickbot(s) == lj_ffs(s)

\* The bits of a word, read off its halves without shifting.
Pow2(n) == CASE n = 0 -> 1 [] n = 1 -> 2 [] n = 2 -> 4 [] n = 3 -> 8
             [] n = 4 -> 16 [] n = 5 -> 32 [] n = 6 -> 64 [] n = 7 -> 128
             [] n = 8 -> 256 [] n = 9 -> 512 [] n = 10 -> 1024 [] n = 11 -> 2048
             [] n = 12 -> 4096 [] n = 13 -> 8192 [] n = 14 -> 16384 [] n = 15 -> 32768
BitsOf(x) ==
  {i \in RegIds : IF i < 16 THEN (x.lo \div Pow2(i)) % 2 = 1
                            ELSE (x.hi \div Pow2(i - 16)) % 2 = 1}
SetMax(S) == CHOOSE m \in S : \A k \in S : k <= m
SetMin(S) == CHOOSE m \in S : \A k \in S : m <= k

MaxOps == 3

RSetInit == rset = U32(RSET_EMPTY) /\ nops = 0 /\ pick = NoPick

RSetSet(r) ==
  /\ nops < MaxOps
  /\ rset' = rset_set(rset, r)
  /\ nops' = nops + 1
  /\ pick' = NoPick
  /\ UNCHANGED <<hintVars, packVars, rangeVars, costVars, evictVars, exitVars>>

RSetClear(r) ==
  /\ nops < MaxOps
  /\ rset' = rset_clear(rset, r)
  /\ nops' = nops + 1
  /\ pick' = NoPick
  /\ UNCHANGED <<hintVars, packVars, rangeVars, costVars, evictVars, exitVars>>

\* callers check for an empty set before picking
PickTop ==
  /\ rset # U32(RSET_EMPTY)
  /\ pick' = [op |-> "top", reg |-> rset_picktop(rset)]
  /\ UNCHANGED <<rset, nops, hintVars, packVars, rangeVars, costVars, evictVars, exitVars>>

PickBot ==
  /\ rset # U32(RSET_EMPTY)
  /\ pick' = [op |-> "bot", reg |-> rset_pickbot(rset)]
  /\ UNCHANGED <<rset, nops, hintVars, packVars, rangeVars, costVars, evictVars, exitVars>>

InitRSet ==
  HintIdle /\ PackIdle /\ RSetInit /\ RangeIdle /\ CostIdle /\ EvictIdle /\ ExitIdle
NextRSet ==
  \/ \E r \in RegIds : RSetSet(r)
  \/ \E r \in RegIds : RSetClear(r)
  \/ PickTop
  \/ PickBot
SpecRSet == InitRSet /\ [][NextRSet]_vars

\* C8: on a non-empty RegSet rset_picktop returns the index of the highest set
\* bit and rset_pickbot the index of the lowest set bit; the result is fixed by
\* the mask alone, whatever was set, cleared or picked before, and the picked
\* register is a member of the mask.
C8_PickIsExtremeBit ==
  /\ pick.op = "top" => (pick.reg = SetMax(BitsOf(rset)) /\ rset_test(rset, pick.reg) = 1)
  /\ pick.op = "bot" => (pick.reg = SetMin(BitsOf(rset)) /\ rset_test(rset, pick.reg) = 1)

C8_Witness ==
  /\ rset = U32(548)
  /\ BitsOf(rset) = {2, 5, 9}
  /\ pick = [op |-> "top", reg |-> 9]

(***************************************************************************)
(* RSET_RANGE(lo, hi).                                                     *)
(***************************************************************************)
RangeInit ==
  /\ range_lo \in 0 .. RegBits
  /\ range_hi \in range_lo .. RegBits
  /\ range_set = U32(RSET_EMPTY)
  /\ range_pc = "ready"

BuildRange ==
  /\ range_pc = "ready"
  /\ range_set' \in RSET_RANGE(range_lo, range_hi)
  /\ range_pc' = "built"
  /\ UNCHANGED <<range_lo, range_hi, hintVars, packVars, rsetVars, costVars, evictVars, exitVars>>

InitRange ==
  HintIdle /\ PackIdle /\ RSetIdle /\ RangeInit /\ CostIdle /\ EvictIdle /\ ExitIdle
NextRange == BuildRange
SpecRange == InitRange /\ [][NextRange]_vars

\* C9 as stated: for every 0 <= lo <= hi <= 32, bit r of RSET_RANGE(lo, hi) is
\* set exactly when lo <= r < hi (all 32 registers for lo = 0, hi = 32).
C9_Original ==
  range_pc = "built" =>
    \A r \in RegIds : (rset_test(range_set, r) = 1) <=> (range_lo <= r /\ r < range_hi)

\* C9 amended: the same for every 0 <= lo <= hi <= 32 with hi - lo <= 31; the
\* full range lo = 0, hi = 32 shifts a 32-bit word by 32 and is left out.
C9_RangeBelowFullWidth ==
  (range_pc = "built" /\ range_hi - range_lo < RegBits) =>
    /\ \A r \in RegIds : (rset_test(range_set, r) = 1) <=> (range_lo <= r /\ r < range_hi)
    /\ BitsOf(range_set) = {r \in RegIds : range_lo <= r /\ r < range_hi}

C9_Witness ==
  /\ range_pc = "built"
  /\ range_lo = 16
  /\ range_hi = 32
  /\ range_set = [hi |-> 65535, lo |-> 0]

(***************************************************************************)
(* Register allocation cost (lj_target.h:69-122).                          *)
(***************************************************************************)
REGCOST_PHI_WEIGHT == 64
\* the phi flag of an instruction type (lj_ir.h)
IRT_ISPHI == 64

\* a plausible slip: the reference is left out of the low half
REGCOST_NoRef(c, ref) == U32Shl(U32(c), 16)
REGCOST(c, ref) == U32Add(U32(ref), U32Shl(U32(c), 16))

\* a plausible slip: the upper half is read instead of the lower one
regcost_ref_High(rc) == rc.hi
\* (IRRef1)(rc), IRRef1 being 16 bits wide
regcost_ref(rc) == rc.lo

\* a plausible slip: the weight is not moved to the upper half
REGCOST_T_LowHalf(t) ==
  U32(BitAnd(t, IRT_ISPHI) * (REGCOST_PHI_WEIGHT \div IRT_ISPHI))
REGCOST_T(t) ==
  U32(BitAnd(t, IRT_ISPHI) * ((REGCOST_PHI_WEIGHT * W16) \div IRT_ISPHI))

\* a plausible slip: the phi score is not added
REGCOST_REF_T_NoScore(ref, t) == REGCOST(ref, ref)
REGCOST_REF_T(ref, t) == U32Add(REGCOST(ref, ref), REGCOST_T(t))

\* References and type flags the costs are computed for: the references within
\* RefWindow of 0, of the two references of the worked example (5 and 10), of
\* the phi weight, of the middle of the 16-bit range, of the first reference
\* whose key leaves 16 bits, and of the largest reference; the type flags with
\* no bit, only the phi bit, every bit but the phi bit and every bit set.  The
\* first value is also taken with each of the 256 type flags.
RefWindow == 2
EdgeAnchors == {0, REGCOST_PHI_WEIGHT, W16 \div 2, W16 - REGCOST_PHI_WEIGHT, W16 - 1}
CostAnchors == EdgeAnchors \cup {5, 10}
RefsNear(A, w) ==
  {x \in UNION {{a + d : d \in (0 - w) .. w} : a \in A} : x >= 0 /\ x < W16}
RefSamples == RefsNear(CostAnchors, RefWindow)
TSamples == {0, IRT_ISPHI, W8 - 1 - IRT_ISPHI, W8 - 1}
Vals == [ref : RefSamples, t : TSamples]

\* the claims' reading of a value, in unbounded arithmetic
IsPhi(v) == (v.t \div IRT_ISPHI) % 2 = 1
Weight(v) == IF IsPhi(v) THEN REGCOST_PHI_WEIGHT ELSE 0
Key(v) == v.ref + Weight(v)

CostInit ==
  /\ \/ valA \in Vals /\ valB \in Vals
     \/ valA \in [ref : RefSamples, t : Byte] /\ valB = [ref |-> 0, t |-> 0]
  /\ costA = NoCost
  /\ costB = NoCost

\* as->cost[r] = REGCOST_REF_T(ref, t) for the value in the first register
CostOfA ==
  /\ costA = NoCost
  /\ costA' = REGCOST_REF_T(valA.ref, valA.t)
  /\ UNCHANGED <<valA, valB, costB, hintVars, packVars, rsetVars, rangeVars, evictVars, exitVars>>

\* the same for the value in the second register
CostOfB ==
  /\ costB = NoCost
  /\ costB' = REGCOST_REF_T(valB.ref, valB.t)
  /\ UNCHANGED <<valA, valB, costA, hintVars, packVars, rsetVars, rangeVars, evictVars, exitVars>>

InitCost ==
  HintIdle /\ PackIdle /\ RSetIdle /\ RangeIdle /\ CostInit /\ EvictIdle /\ ExitIdle
NextCost == CostOfA \/ CostOfB
SpecCost == InitCost /\ [][NextCost]_vars

BothCosts == costA # NoCost /\ costB # NoCost

\* C1 as stated: for every pair of values with 16-bit references, the unsigned
\* comparison of the two RegCosts puts the value with the smaller ref + weight
\* first.
C1_Original ==
  BothCosts => (Key(valA) < Key(valB) => U32Lt(costA, costB))

\* C1 amended: the same for every pair of values whose ref + weight is at most
\* 65535 (a phi's reference at most 65471): the RegCosts are ordered by
\* ref + weight first and by ref on a tie.
C1_OrderByKeyWithin16Bits ==
  (BothCosts /\ Key(valA) < W16 /\ Key(valB) < W16) =>
    (U32Lt(costA, costB) <=>
       (Key(valA) < Key(valB) \/ (Key(valA) = Key(valB) /\ valA.ref < valB.ref)))

C1_Witness ==
  /\ BothCosts
  /\ valA = [ref |-> 2, t |-> 64]
  /\ valB = [ref |-> 64, t |-> 0]
  /\ costA = [hi |-> 66, lo |-> 2]
  /\ U32Lt(costB, costA)

\* C2: for every 16-bit ref and every type-flags value t,
\* regcost_ref(REGCOST_REF_T(ref, t)) = ref: the low half of a RegCost is the
\* reference, whatever the phi penalty and the key in the upper half.
C2_RefRecovered ==
  /\ costA # NoCost => regcost_ref(costA) = valA.ref
  /\ costB # NoCost => regcost_ref(costB) = valB.ref

C2_Witness ==
  /\ costA # NoCost
  /\ valA = [ref |-> 65535, t |-> 255]
  /\ costA.hi = 63
  /\ regcost_ref(costA) = 65535

\* C3 as stated: a phi with reference p has a smaller RegCost than a non-phi
\* with reference n only when n - p >= 64; when n - p < 64 the non-phi has the
\* smaller cost.
C3_Original ==
  (BothCosts /\ IsPhi(valA) /\ ~IsPhi(valB)) =>
    /\ U32Lt(costA, costB) => valB.ref - valA.ref >= REGCOST_PHI_WEIGHT
    /\ valB.ref - valA.ref < REGCOST_PHI_WEIGHT => U32Lt(costB, costA)

\* C3 amended: the same for a phi whose reference p is at most 65471, so that
\* p + 64 still fits the 16-bit key.
C3_PhiProtectedWithin16Bits ==
  (BothCosts /\ IsPhi(valA) /\ ~IsPhi(valB) /\ Key(valA) < W16) =>
    /\ U32Lt(costA, costB) => valB.ref - valA.ref >= REGCOST_PHI_WEIGHT
    /\ valB.ref - valA.ref < REGCOST_PHI_WEIGHT => U32Lt(costB, costA)

C3_Witness ==
  /\ BothCosts
  /\ valA = [ref |-> 5, t |-> 64]
  /\ valB = [ref |-> 10, t |-> 0]
  /\ costA.hi = 69
  /\ costB.hi = 10
  /\ U32Lt(costB, costA)

(***************************************************************************)
(* The allocator around the cost (lj_target.h:71-91): a free register has  *)
(* cost 0 and a 1-bit in the free mask; an allocated one has the cost of   *)
(* its value; with no free register a linear search finds the minimum cost *)
(* and its low bits name the reference whose register is evicted.          *)
(***************************************************************************)
NumRegs == 2
Regs == 0 .. NumRegs - 1
\* no scan result: outside the 16-bit references
NoRef == W16

\* the values registers are allocated for; an allocated register has a non-zero
\* reference
EvictVals == [ref : RefsNear(EdgeAnchors, RefWindow - 1) \ {0}, t : {0, IRT_ISPHI}]
Occupied(r) == regval[r] # NoVal
HeldRefs == {regval[r].ref : r \in {q \in Regs : Occupied(q)}}

RECURSIVE MinCostFrom(_, _)
\* the linear search: cost starts at ~0 and takes every smaller as->cost[r]
MinCostFrom(r, acc) ==
  IF r = NumRegs THEN acc
  ELSE MinCostFrom(r + 1, IF U32Lt(cost[r], acc) THEN cost[r] ELSE acc)

EvictInit ==
  /\ regval = [r \in Regs |-> NoVal]
  /\ cost = [r \in Regs |-> U32Zero]
  /\ freeset \in RSET_RANGE(0, NumRegs)
  /\ evictref = NoRef

\* a value not yet in a register gets a free one
Alloc(v) ==
  /\ freeset # U32(RSET_EMPTY)
  /\ v.ref \notin HeldRefs
  /\ LET r == rset_picktop(freeset) IN
       /\ regval' = [regval EXCEPT ![r] = v]
       /\ cost' = [cost EXCEPT ![r] = REGCOST_REF_T(v.ref, v.t)]
       /\ freeset' = rset_clear(freeset, r)
  /\ evictref' = NoRef
  /\ UNCHANGED <<hintVars, packVars, rsetVars, rangeVars, costVars, exitVars>>

\* a register is released at the definition of its value
FreeReg(r) ==
  /\ Occupied(r)
  /\ regval' = [regval EXCEPT ![r] = NoVal]
  /\ cost' = [cost EXCEPT ![r] = U32Zero]
  /\ freeset' = rset_set(freeset, r)
  /\ evictref' = NoRef
  /\ UNCHANGED <<hintVars, packVars, rsetVars, rangeVars, costVars, exitVars>>

\* no free register: search the minimum cost and read the reference off it
ScanEvict ==
  /\ freeset = U32(RSET_EMPTY)
  /\ evictref = NoRef
  /\ evictref' = regcost_ref(MinCostFrom(0, U32Max))
  /\ UNCHANGED <<regval, cost, freeset, hintVars, packVars, rsetVars, rangeVars, costVars, exitVars>>

\* the register of the reference found is spilled and becomes free
Evict ==
  /\ evictref # NoRef
  /\ \E r \in Regs :
       /\ Occupied(r)
       /\ regval[r].ref = evictref
       /\ regval' = [regval EXCEPT ![r] = NoVal]
       /\ cost' = [cost EXCEPT ![r] = U32Zero]
       /\ freeset' = rset_set(freeset, r)
  /\ evictref' = NoRef
  /\ UNCHANGED <<hintVars, packVars, rsetVars, rangeVars, costVars, exitVars>>

InitEvict ==
  HintIdle /\ PackIdle /\ RSetIdle /\ RangeIdle /\ CostIdle /\ EvictInit /\ ExitIdle
NextEvict ==
  \/ \E v \in EvictVals : Alloc(v)
  \/ \E r \in Regs : FreeReg(r)
  \/ ScanEvict
  \/ Evict
SpecEvict == InitEvict /\ [][NextEvict]_vars

\* C10: occupied registers holding values with pairwise distinct references
\* have pairwise distinct RegCosts, and the reference read off the minimum
\* cost by the eviction scan is held by exactly one occupied register.
C10_EvictCandidateIsHeld ==
  /\ \A p, q \in Regs :
       (Occupied(p) /\ Occupied(q) /\ regval[p].ref # regval[q].ref) => cost[p] # cost[q]
  /\ evictref # NoRef =>
       Cardinality({r \in Regs : Occupied(r) /\ regval[r].ref = evictref}) = 1

C10_Witness ==
  /\ \A r \in Regs : Occupied(r)
  /\ evictref = 65472
  /\ \E r \in Regs : regval[r] = [ref |-> 65472, t |-> 64]
  /\ \E r \in Regs : regval[r] = [ref |-> 1, t |-> 0]

(***************************************************************************)
(* Exit stubs (lj_target.h:132-138).                                       *)
(***************************************************************************)
\* group size and stub spacing of the target (lj_target_x86.h)
EXITSTUBS_PER_GROUP == 16
EXITSTUB_SPACING == 32
NULL == 0

MaxGroups == 3
MaxBases == 2
Groups == 0 .. MaxGroups - 1
ExitNos == 0 .. MaxGroups * EXITSTUBS_PER_GROUP - 1
\* addresses a generated group can start at
BaseAddrs == {4096 * k : k \in 1 .. MaxBases}

\* a plausible slip: quotient and remainder are exchanged in the offset
exitstub_addr_DivOffset(J, e, asserts) ==
  IF asserts /\ J[e \div EXITSTUBS_PER_GROUP] = NULL
    THEN [kind |-> "assert", addr |-> 0]
    ELSE [kind |-> "addr",
          addr |-> J[e \div EXITSTUBS_PER_GROUP]
                     + EXITSTUB_SPACING * (e \div EXITSTUBS_PER_GROUP)]
\* lua_assert checks the group only when assertions are compiled in; without
\* them the address is computed from whatever the group entry holds
exitstub_addr(J, e, asserts) ==
  IF asserts /\ J[e \div EXITSTUBS_PER_GROUP] = NULL
    THEN [kind |-> "assert", addr |-> 0]
    ELSE [kind |-> "addr",
          addr |-> J[e \div EXITSTUBS_PER_GROUP]
                     + EXITSTUB_SPACING * (e % EXITSTUBS_PER_GROUP)]

ExitInit ==
  /\ exitstubgroup = [g \in Groups |-> NULL]
  /\ use_assert \in BOOLEAN
  /\ exitno = -1
  /\ exitres = NoRes

\* a failed lua_assert aborts the process
Running == exitres.kind # "assert"

\* the next group of exit stubs is generated and its base recorded; the result
\* of an earlier lookup is no longer held
GenGroup(b) ==
  /\ Running
  /\ \E g \in Groups :
       /\ exitstubgroup[g] = NULL
       /\ \A h \in Groups : h < g => exitstubgroup[h] # NULL
       /\ exitstubgroup' = [exitstubgroup EXCEPT ![g] = b]
  /\ exitno' = -1
  /\ exitres' = NoRes
  /\ UNCHANGED use_assert
  /\ UNCHANGED <<hintVars, packVars, rsetVars, rangeVars, costVars, evictVars>>

\* a flush of all compiled code clears every group
FlushAll ==
  /\ Running
  /\ \E g \in Groups : exitstubgroup[g] # NULL
  /\ exitstubgroup' = [g \in Groups |-> NULL]
  /\ exitno' = -1
  /\ exitres' = NoRes
  /\ UNCHANGED use_assert
  /\ UNCHANGED <<hintVars, packVars, rsetVars, rangeVars, costVars, evictVars>>

Lookup(e) ==
  /\ Running
  /\ exitno' = e
  /\ exitres' = exitstub_addr(exitstubgroup, e, use_assert)
  /\ UNCHANGED <<exitstubgroup, use_assert>>
  /\ UNCHANGED <<hintVars, packVars, rsetVars, rangeVars, costVars, evictVars>>

InitExit ==
  HintIdle /\ PackIdle /\ RSetIdle /\ RangeIdle /\ CostIdle /\ EvictIdle /\ ExitInit
NextExit ==
  \/ \E b \in BaseAddrs : GenGroup(b)
  \/ FlushAll
  \/ \E e \in ExitNos : Lookup(e)
SpecExit == InitExit /\ [][NextExit]_vars

\* the group and the index within the group of the last lookup, by search
ExitGroup == CHOOSE g \in Groups : \E k \in 0 .. EXITSTUBS_PER_GROUP - 1 :
               exitno = g * EXITSTUBS_PER_GROUP + k
ExitIndex == exitno - ExitGroup * EXITSTUBS_PER_GROUP

AddrOfGeneratedGroup ==
  (exitno # -1 /\ exitstubgroup[ExitGroup] # NULL) =>
    /\ exitres = [kind |-> "addr",
                  addr |-> exitstubgroup[ExitGroup] + ExitIndex * EXITSTUB_SPACING]
    /\ exitno = 20 => exitres.addr = exitstubgroup[1] + 128
    /\ exitno = 15 => exitres.addr = exitstubgroup[0] + 480

\* C5 as stated: a lookup in a generated group returns the group's base plus
\* (e mod EXITSTUBS_PER_GROUP) * EXITSTUB_SPACING (exit 20: group 1 + 128, exit
\* 15: group 0 + 480), and a lookup whose group entry is null fails the
\* assertion instead of returning an address.
C5_Original ==
  /\ AddrOfGeneratedGroup
  /\ (exitno # -1 /\ exitstubgroup[ExitGroup] = NULL) => exitres.kind = "assert"

\* C5 amended: the address part as stated; a lookup whose group entry is null
\* fails the assertion when assertions are compiled in, and otherwise returns
\* the offset from the null base.
C5_ExitStubAddress ==
  /\ AddrOfGeneratedGroup
  /\ (exitno # -1 /\ exitstubgroup[ExitGroup] = NULL) =>
       IF use_assert
         THEN exitres.kind = "assert"
         ELSE exitres = [kind |-> "addr", addr |-> NULL + ExitIndex * EXITSTUB_SPACING]

C5_Witness ==
  /\ exitno = 20
  /\ exitstubgroup[1] = 8192
  /\ exitres = [kind |-> "addr", addr |-> 8320]

====
